---------------------------- MODULE Spec2Model ----------------------------
(***************************************************************************)
(* SkyCast event weather forecaster: the historical aggregator, the        *)
(* forecast simulator, the date advisor (get_data.py) and the risk         *)
(* computation and dashboard (app.py).                                     *)
(*                                                                         *)
(* Conventions.  A date is a triple <<year, month, day>>; the ISO string  *)
(* 'YYYY-MM-DD' the code formats and parses is that triple.  A month-day   *)
(* key 'MM-DD' is the pair <<month, day>>; the lexical order of the        *)
(* zero-padded strings is the lexicographic order of the pairs.  A missing *)
(* field (None/NaN) is Null.  The code's floats are modelled as exact      *)
(* rationals [n |-> numerator, d |-> denominator] with d > 0.              *)
(***************************************************************************)
EXTENDS Integers, Sequences, FiniteSets, TLC

VARIABLES
    \* get_historical_data_for_event, run step by step
    f_pc, f_start, f_end, f_i, all_years_df, requests, served, f_result, f_raised,
    \* find_best_dates: its arguments, the provider's behaviour, its locals
    b_pc, original_start, original_end, b_ok, b_wx,
    wide_range_df, daily_risks, rolling_avg_risk, b_result,
    \* simulate_future_forecast: its arguments and locals
    s_pc, historical_df, s_start, s_end, daily_avg, s_k, forecast_list, s_result,
    \* app.py: st.session_state, and what the last script run put on screen
    d_pc, analysis_done, location_input, original_results, comparison_results,
    current_results, event_start, event_end, d_view, d_error, suggestion_buttons,
    report,
    \* the core run on one provider: its inputs, run_analysis's hist_df and
    \* risk figures
    r_pc, r_start, r_end, r_ok, r_wx, r_hist_df, r_risk,
    \* st.session_state.hot_thresh and rain_thresh as run_analysis reads them
    r_hot_thresh, r_rain_thresh

fetchVars == <<f_pc, f_start, f_end, f_i, all_years_df, requests, served, f_result, f_raised>>

bestVars == <<b_pc, original_start, original_end, b_ok, b_wx,
              wide_range_df, daily_risks, rolling_avg_risk, b_result>>

simVars == <<s_pc, historical_df, s_start, s_end, daily_avg, s_k,
             forecast_list, s_result>>

dashVars == <<d_pc, analysis_done, location_input, original_results,
              comparison_results, current_results, event_start, event_end,
              d_view, d_error, suggestion_buttons, report>>

coreVars == <<r_pc, r_start, r_end, r_ok, r_wx, r_hist_df, r_risk,
              r_hot_thresh, r_rain_thresh>>

vars == <<fetchVars, bestVars, simVars, dashVars, coreVars>>

\* a field value is <<v>>, or Null when the provider sent none (NaN)
Null == <<>>
Some(v) == <<v>>
Val(x) == x[1]

-----------------------------------------------------------------------------
(* Bounds of the model *)

\* at most this many of the 20 yearly requests answer with a 'daily' payload
MaxFrames == 2

\* the longest event, in days
MaxDuration == 3

\* the longest range the simulator is asked for, in days
MaxSimDays == 2

\* in the date advisor and the simulator, the years 1..MaxOkYears answer
\* with data (or only year 1, or none)
MaxOkYears == 3

(* Program constants *)

\* timedelta(days=30)
SearchRadius == 30

\* st.session_state.hot_thresh, st.session_state.rain_thresh
HotThresh == 32
RainThresh == 10

\* def find_best_dates(lat, lon, original_start, original_end, hot_thresh,
\* rain_thresh): the number of parameters
FindBestDatesParams == 6

\* find_best_dates(latitude, longitude, search_start, search_end,
\* res['hot_thresh'], res['rain_thresh'], event_duration): the number of
\* arguments of the dashboard's call
FindBestDatesArgs == 7

\* min(3, len(source_list))
MaxSuggestions == 3

\* for i in range(20)
NumYears == 20

-----------------------------------------------------------------------------
(* datetime.date arithmetic *)

IsLeap(y) == (y % 4 = 0) /\ ((y % 100 # 0) \/ (y % 400 = 0))

DaysInMonth(y, m) ==
    IF m = 2 THEN (IF IsLeap(y) THEN 29 ELSE 28)
    ELSE IF m \in {4, 6, 9, 11} THEN 30 ELSE 31

DaysBeforeYear(y) ==
    LET p == y - 1 IN p * 365 + (p \div 4) - (p \div 100) + (p \div 400)

RECURSIVE DaysBeforeMonth(_, _)
DaysBeforeMonth(y, m) ==
    IF m = 1 THEN 0 ELSE DaysBeforeMonth(y, m - 1) + DaysInMonth(y, m - 1)

ValidDate(dt) ==
    /\ dt[2] \in 1..12
    /\ dt[3] \in 1..DaysInMonth(dt[1], dt[2])

\* date.toordinal()
ToOrdinal(dt) == DaysBeforeYear(dt[1]) + DaysBeforeMonth(dt[1], dt[2]) + dt[3]

\* date.fromordinal(n)
FromOrdinal(n) ==
    LET y == CHOOSE yy \in (n \div 366)..((n \div 365) + 1) :
                 DaysBeforeYear(yy) < n /\ n <= DaysBeforeYear(yy + 1)
        r == n - DaysBeforeYear(y)
        m == CHOOSE mm \in 1..12 :
                 DaysBeforeMonth(y, mm) < r
                 /\ r <= DaysBeforeMonth(y, mm) + DaysInMonth(y, mm)
    IN  <<y, m, r - DaysBeforeMonth(y, m)>>

\* date + timedelta(days=k)
AddDays(dt, k) == FromOrdinal(ToOrdinal(dt) + k)

\* (b - a).days
DaysBetween(a, b) == ToOrdinal(b) - ToOrdinal(a)

\* date - relativedelta(years=k): the year is decremented, the day is
\* clamped to the last day of the month in the target year (Feb 29 -> Feb 28)
SubYears(dt, k) ==
    LET y == dt[1] - k
        last == DaysInMonth(y, dt[2])
    IN  <<y, dt[2], IF dt[3] > last THEN last ELSE dt[3]>>

\* pd.date_range(start, end): every day of the inclusive range, ascending
DateRange(start, end) ==
    LET n == DaysBetween(start, end) + 1
    IN  IF n <= 0 THEN <<>> ELSE [k \in 1..n |-> AddDays(start, k - 1)]

\* dt.strftime('%m-%d')
MonthDay(dt) == <<dt[2], dt[3]>>

-----------------------------------------------------------------------------
(* Sequences *)

RECURSIVE Concat(_)
\* pd.concat(frames, ignore_index=True)
Concat(frames) ==
    IF frames = <<>> THEN <<>> ELSE Head(frames) \o Concat(Tail(frames))

-----------------------------------------------------------------------------
(* 1. Historical data engine: get_historical_data_for_event *)

Fields == {"time", "temperature_2m_max", "temperature_2m_min",
           "precipitation_sum", "windspeed_10m_max"}

RowComplete(row) == \A fld \in Fields : row[fld] # Null

\* DataFrame.dropna(): rows with any missing field are removed
DropNa(df) == SelectSeq(df, RowComplete)

\* the window of the i-th previous year (i = 1..20)
PastWindow(start_date, end_date, i) ==
    <<SubYears(start_date, i), SubYears(end_date, i)>>

\* the parameters of the request of year i
RequestParams(start_date, end_date, i) ==
    [start_date |-> PastWindow(start_date, end_date, i)[1],
     end_date   |-> PastWindow(start_date, end_date, i)[2]]

\* One pass of the loop body's try block on the response of one year.  A
\* response is [kind, frame]: "daily" (200 with a 'daily' payload),
\* "nodaily" (200 without one), "non200", "exception" (requests.get, json()
\* or the DataFrame constructor raised).  Returns the new list of frames and
\* whether an exception escaped the loop body.
AbortOnFailure(frames, resp) ==
    IF resp.kind = "daily"
    THEN [frames |-> Append(frames, resp.frame), raised |-> FALSE]
    ELSE [frames |-> frames, raised |-> resp.kind \in {"non200", "exception"}]
OneYear(frames, resp) ==
    IF resp.kind = "exception" THEN [frames |-> frames, raised |-> FALSE]
    ELSE IF resp.kind = "non200" THEN [frames |-> frames, raised |-> FALSE]
    ELSE IF resp.kind = "daily"
         THEN [frames |-> Append(frames, resp.frame), raised |-> FALSE]
         ELSE [frames |-> frames, raised |-> FALSE]

\* lines 45-46: the empty dataset when no year contributed, else the
\* concatenation without its incomplete rows
Combine(frames) ==
    IF frames = <<>> THEN <<>> ELSE DropNa(Concat(frames))


-----------------------------------------------------------------------------
(* The weather provider (environment).  A weather descriptor wx says, for   *)
(* the k-th day (k = 0, 1, ...) of the window requested for the i-th        *)
(* previous year, what the archive holds: days goodFrom..goodFrom+goodLen-1 *)
(* are calm, the others rainy; with mixed, year 1 has a hot day at goodFrom;*)
(* the days at the offsets in missing have no precipitation value.          *)

ClassOf(wx, i, k) ==
    IF k \in wx.missing THEN "gap"
    ELSE IF wx.mixed /\ i = 1 /\ k = wx.goodFrom THEN "hot"
    ELSE IF k >= wx.goodFrom /\ k < wx.goodFrom + wx.goodLen THEN "good"
    ELSE "rainy"

ServerRow(t, class) ==
    [time |-> t,
     temperature_2m_max |-> Some(IF class = "hot" THEN 35 ELSE 30),
     temperature_2m_min |-> Some(IF class = "hot" THEN 25 ELSE 20),
     precipitation_sum  |-> IF class = "gap" THEN Null
                            ELSE Some(IF class = "rainy" THEN 20 ELSE 0),
     windspeed_10m_max  |-> Some(IF class = "rainy" THEN 10
                                 ELSE IF class = "hot" THEN 5 ELSE 0)]

ServerRows(wx, days, i) ==
    [k \in 1..Len(days) |-> ServerRow(days[k], ClassOf(wx, i, k - 1))]

\* the 'daily' payload for the request of year i: one row per day
ServerFrame(wx, start_date, end_date, i) ==
    ServerRows(wx, DateRange(PastWindow(start_date, end_date, i)[1],
                             PastWindow(start_date, end_date, i)[2]), i)

Kinds == {"daily", "nodaily", "non200", "exception"}

-----------------------------------------------------------------------------
(* get_historical_data_for_event as a process: one step per loop iteration *)

FetchWindows ==
    { <<(<<2027, 7, 10>>), (<<2027, 7, 11>>)>>,
      <<(<<2028, 2, 29>>), (<<2028, 3, 1>>)>> }

FetchWx ==
    { [goodFrom |-> 0, goodLen |-> 1, mixed |-> FALSE, missing |-> {}],
      [goodFrom |-> 0, goodLen |-> 1, mixed |-> FALSE, missing |-> {0}] }

IdleBest ==
    /\ b_pc = "idle"
    /\ original_start = <<>>
    /\ original_end = <<>>
    /\ b_ok = {}
    /\ b_wx = <<>>
    /\ wide_range_df = <<>>
    /\ daily_risks = <<>>
    /\ rolling_avg_risk = <<>>
    /\ b_result = <<>>

IdleSim ==
    /\ s_pc = "idle"
    /\ historical_df = <<>>
    /\ s_start = <<>>
    /\ s_end = <<>>
    /\ daily_avg = <<>>
    /\ s_k = 0
    /\ forecast_list = <<>>
    /\ s_result = <<>>

None == [kind |-> "None"]

IdleCore ==
    /\ r_pc = "idle"
    /\ r_start = <<>>
    /\ r_end = <<>>
    /\ r_ok = {}
    /\ r_wx = <<>>
    /\ r_hist_df = <<>>
    /\ r_risk = <<>>
    /\ r_hot_thresh = 0
    /\ r_rain_thresh = 0

IdleDash ==
    /\ d_pc = "off"
    /\ analysis_done = FALSE
    /\ location_input = ""
    /\ original_results = None
    /\ comparison_results = None
    /\ current_results = "None"
    /\ event_start = <<>>
    /\ event_end = <<>>
    /\ d_view = "none"
    /\ d_error = "none"
    /\ suggestion_buttons = <<>>
    /\ report = None

InitFetch ==
    /\ IdleCore
    /\ IdleBest
    /\ IdleSim
    /\ IdleDash
    /\ f_pc = "loop"
    /\ \E w \in FetchWindows : f_start = w[1] /\ f_end = w[2]
    /\ f_i = 0
    /\ all_years_df = <<>>
    /\ requests = <<>>
    /\ served = <<>>
    /\ f_result = <<>>
    /\ f_raised = FALSE

\* lines 21-43: iteration i of the loop; the provider answers any way it likes
FetchYear ==
    /\ f_pc = "loop"
    /\ f_i < NumYears
    /\ \E kind \in Kinds, wx \in FetchWx :
         LET year == f_i + 1
             resp == [kind  |-> kind,
                      frame |-> IF kind = "daily"
                                THEN ServerFrame(wx, f_start, f_end, year)
                                ELSE <<>>]
             step == OneYear(all_years_df, resp)
         IN  /\ kind = "daily" => Len(served) < MaxFrames
             /\ requests' = Append(requests, RequestParams(f_start, f_end, year))
             /\ served' = IF kind = "daily"
                          THEN Append(served, [year |-> year, frame |-> resp.frame])
                          ELSE served
             /\ all_years_df' = step.frames
             /\ f_raised' = step.raised
             /\ f_pc' = IF step.raised THEN "raised" ELSE "loop"
             /\ f_i' = year
    /\ UNCHANGED <<f_start, f_end, f_result>>
    /\ UNCHANGED <<bestVars, simVars, dashVars, coreVars>>

\* lines 45-46: the loop is over, the frames are combined
FetchReturn ==
    /\ f_pc = "loop"
    /\ f_i = NumYears
    /\ f_result' = Combine(all_years_df)
    /\ f_pc' = "done"
    /\ UNCHANGED <<f_start, f_end, f_i, all_years_df, requests, served, f_raised>>
    /\ UNCHANGED <<bestVars, simVars, dashVars, coreVars>>

NextFetch == FetchYear \/ FetchReturn

SpecFetch == InitFetch /\ [][NextFetch]_vars

-----------------------------------------------------------------------------
(* get_historical_data_for_event as one call, for its callers *)

RECURSIVE Gather(_, _, _)
\* the loop of lines 21-43 from year i on; resp[i] is the answer of year i
Gather(frames, resp, i) ==
    IF i > NumYears THEN frames
    ELSE Gather(OneYear(frames, resp[i]).frames, resp, i + 1)

GetHistoricalData(resp) == Combine(Gather(<<>>, resp, 1))

\* the provider: the years in ok answer with the weather of wx, the others fail
Provider(ok, wx, start_date, end_date) ==
    [i \in 1..NumYears |->
        IF i \in ok
        THEN [kind |-> "daily", frame |-> ServerFrame(wx, start_date, end_date, i)]
        ELSE [kind |-> "non200", frame |-> <<>>]]

-----------------------------------------------------------------------------
(* Rationals *)

RECURSIVE Gcd(_, _)
Gcd(a, b) == IF b = 0 THEN a ELSE Gcd(b, a % b)

Rat(n, d) ==
    LET g == Gcd(IF n < 0 THEN -n ELSE n, d)
    IN  [n |-> n \div g, d |-> d \div g]

RatAdd(a, b) == Rat(a.n * b.d + b.n * a.d, a.d * b.d)
RatLess(a, b) == a.n * b.d < b.n * a.d
RatEq(a, b) == a.n * b.d = b.n * a.d

-----------------------------------------------------------------------------
(* 4. Date advisor engine: find_best_dates *)

\* every 'MM-DD' key in the ascending order of the strings, which is the
\* order of the <<month, day>> pairs
AllMonthDays == [k \in 1..(12 * 31) |-> <<((k - 1) \div 31) + 1, ((k - 1) % 31) + 1>>]

SortKeys(keys) == SelectSeq(AllMonthDays, LAMBDA key : key \in keys)

\* groupby('month_day'): the distinct keys, sorted ascending
GroupKeys(df) == SortKeys({MonthDay(df[k].time) : k \in 1..Len(df)})

\* (x > thresh).mean() * 100 over the rows of one group
ExceedProb(df, rows, field, thresh) ==
    Rat(100 * Cardinality({k \in rows : Val(df[k][field]) > thresh}),
        Cardinality(rows))

\* lines 98-104: one entry per month-day with hot_prob, rain_prob, total_risk
GroupRisk(df, key, rows, hot_thresh, rain_thresh) ==
    [month_day |-> key,
     hot_prob  |-> ExceedProb(df, rows, "temperature_2m_max", hot_thresh),
     rain_prob |-> ExceedProb(df, rows, "precipitation_sum", rain_thresh),
     total_risk |-> RatAdd(ExceedProb(df, rows, "temperature_2m_max", hot_thresh),
                           ExceedProb(df, rows, "precipitation_sum", rain_thresh))]

GroupRisks(df, keys, hot_thresh, rain_thresh) ==
    [p \in 1..Len(keys) |->
        GroupRisk(df, keys[p],
                  {k \in 1..Len(df) : MonthDay(df[k].time) = keys[p]},
                  hot_thresh, rain_thresh)]

DailyRisks(df, hot_thresh, rain_thresh) ==
    GroupRisks(df, GroupKeys(df), hot_thresh, rain_thresh)

RECURSIVE SumRisk(_, _, _)
SumRisk(risks, from, to) ==
    IF from > to THEN Rat(0, 1)
    ELSE RatAdd(risks[from].total_risk, SumRisk(risks, from + 1, to))

RatDiv(a, k) == Rat(a.n, a.d * k)

\* line 105: rolling(window).mean(); Null (NaN) on the first window-1 positions
Rolling(risks, window) ==
    [p \in 1..Len(risks) |->
        IF p < window THEN Null
        ELSE Some(RatDiv(SumRisk(risks, p - window + 1, p), window))]

\* line 107: Series.idxmin(), the first position holding the least value,
\* NaN skipped (positions here count from 1, the code's from 0)
IdxMinLast(roll) ==
    CHOOSE p \in 1..Len(roll) :
        /\ roll[p] # Null
        /\ \A q \in 1..Len(roll) :
              roll[q] # Null =>
                 /\ ~RatLess(Val(roll[q]), Val(roll[p]))
                 /\ (RatEq(Val(roll[q]), Val(roll[p])) => q <= p)
IdxMin(roll) ==
    CHOOSE p \in 1..Len(roll) :
        /\ roll[p] # Null
        /\ \A q \in 1..Len(roll) :
              roll[q] # Null =>
                 /\ ~RatLess(Val(roll[q]), Val(roll[p]))
                 /\ (RatEq(Val(roll[q]), Val(roll[p])) => p <= q)

\* datetime.date(y, m, d): raises ValueError for a day the month has not
MakeDate(y, m, d) ==
    IF ValidDate(<<y, m, d>>) THEN [ok |-> TRUE, date |-> <<y, m, d>>]
    ELSE [ok |-> FALSE, date |-> <<>>]

\* lines 108-115: the window ending at best_window_end_idx, as dates of
\* the year of original_start
BestWindowDates(risks, best_window_end_idx, event_duration, year) ==
    LET first == risks[best_window_end_idx - event_duration + 1].month_day
        last  == risks[best_window_end_idx].month_day
        best_start_date == MakeDate(year, first[1], first[2])
        best_end_date ==
            IF first[1] <= last[1] THEN MakeDate(year, last[1], last[2])
            ELSE MakeDate(year + 1, last[1], last[2])
    IN  IF ~best_start_date.ok \/ ~best_end_date.ok
        THEN [kind |-> "ValueError"]
        ELSE [kind |-> "dates", best_start_date |-> best_start_date.date,
              best_end_date |-> best_end_date.date]

NoDates == [kind |-> "none"]

EventDuration == DaysBetween(original_start, original_end) + 1
SearchStart == AddDays(original_start, -SearchRadius)
SearchEnd == AddDays(original_start, SearchRadius)

BestStarts ==
    { <<2027, 7, 10>>, <<2027, 1, 1>>, <<2026, 12, 20>>,
      <<2027, 2, 20>>, <<2028, 2, 20>> }

\* offsets into the search window where the calm days begin (61: nowhere)
GoodFroms == {0, 29, 38, 39, 41, 59, 61}

OkYearSets == { {}, {1}, 1..MaxOkYears }

InitBestArgs ==
    /\ b_pc = "start"
    /\ original_start \in BestStarts
    /\ \E dur \in 1..MaxDuration :
         /\ original_end = AddDays(original_start, dur - 1)
         /\ \E from \in GoodFroms, extra \in {0, 1}, mixed \in BOOLEAN,
               gap \in BOOLEAN :
              b_wx = [goodFrom |-> from, goodLen |-> dur + extra,
                      mixed |-> mixed,
                      missing |-> IF gap THEN {from + 1} ELSE {}]
    /\ b_ok \in OkYearSets
    /\ wide_range_df = <<>>
    /\ daily_risks = <<>>
    /\ rolling_avg_risk = <<>>
    /\ b_result = <<>>

IdleFetch ==
    /\ f_pc = "idle"
    /\ f_start = <<>>
    /\ f_end = <<>>
    /\ f_i = 0
    /\ all_years_df = <<>>
    /\ requests = <<>>
    /\ served = <<>>
    /\ f_result = <<>>
    /\ f_raised = FALSE

InitBest == IdleFetch /\ IdleSim /\ IdleDash /\ IdleCore /\ InitBestArgs

\* lines 94-97: the search range is fetched; no data, no dates
BestFetch ==
    /\ b_pc = "start"
    /\ LET df == GetHistoricalData(Provider(b_ok, b_wx, SearchStart, SearchEnd))
       IN  /\ wide_range_df' = df
           /\ IF df = <<>>
              THEN b_pc' = "done" /\ b_result' = NoDates
              ELSE b_pc' = "fetched" /\ b_result' = b_result
    /\ UNCHANGED <<original_start, original_end, b_ok, b_wx, daily_risks,
                   rolling_avg_risk>>
    /\ UNCHANGED <<fetchVars, simVars, dashVars, coreVars>>

\* lines 98-104: the risk of each month-day
BestRisks ==
    /\ b_pc = "fetched"
    /\ daily_risks' = DailyRisks(wide_range_df, HotThresh, RainThresh)
    /\ b_pc' = "risks"
    /\ UNCHANGED <<original_start, original_end, b_ok, b_wx, wide_range_df,
                   rolling_avg_risk, b_result>>
    /\ UNCHANGED <<fetchVars, simVars, dashVars, coreVars>>

\* line 105: the moving average of total_risk over event_duration groups
BestRolling ==
    /\ b_pc = "risks"
    /\ rolling_avg_risk' = Rolling(daily_risks, EventDuration)
    /\ b_pc' = "rolled"
    /\ UNCHANGED <<original_start, original_end, b_ok, b_wx, wide_range_df,
                   daily_risks, b_result>>
    /\ UNCHANGED <<fetchVars, simVars, dashVars, coreVars>>

\* lines 106-116: the least moving average picks the window
BestPick ==
    /\ b_pc = "rolled"
    /\ IF \A p \in 1..Len(rolling_avg_risk) : rolling_avg_risk[p] = Null
       THEN b_result' = NoDates /\ b_pc' = "done"
       ELSE LET out == BestWindowDates(daily_risks, IdxMin(rolling_avg_risk),
                                       EventDuration, original_start[1])
            IN  /\ b_result' = out
                /\ b_pc' = IF out.kind = "ValueError" THEN "raised" ELSE "done"
    /\ UNCHANGED <<original_start, original_end, b_ok, b_wx, wide_range_df,
                   daily_risks, rolling_avg_risk>>
    /\ UNCHANGED <<fetchVars, simVars, dashVars, coreVars>>

NextBest == BestFetch \/ BestRisks \/ BestRolling \/ BestPick

SpecBest == InitBest /\ [][NextBest]_vars

-----------------------------------------------------------------------------
(* 2. Simulated forecast engine: simulate_future_forecast *)

RECURSIVE SumField(_, _, _)
SumField(df, rows, field) ==
    IF rows = {} THEN 0
    ELSE LET k == CHOOSE x \in rows : TRUE
         IN  Val(df[k][field]) + SumField(df, rows \ {k}, field)

\* the mean of one column over the rows of one group
Mean(df, rows, field) == Rat(SumField(df, rows, field), Cardinality(rows))

GroupMeans(df, key, rows) ==
    [month_day |-> key,
     temperature_2m_max |-> Mean(df, rows, "temperature_2m_max"),
     temperature_2m_min |-> Mean(df, rows, "temperature_2m_min"),
     precipitation_sum  |-> Mean(df, rows, "precipitation_sum"),
     windspeed_10m_max  |-> Mean(df, rows, "windspeed_10m_max")]

ClimatologyOf(df, keys) ==
    [p \in 1..Len(keys) |->
        GroupMeans(df, keys[p], {k \in 1..Len(df) : MonthDay(df[k].time) = keys[p]})]

\* lines 53-59: groupby('month_day').agg(mean)
Climatology(df) == ClimatologyOf(df, GroupKeys(df))

\* line 60: pd.date_range(start=start_date, end=end_date)
SimulatedDatesExclusive(start_date, end_date) ==
    DateRange(start_date, AddDays(end_date, -1))
SimulatedDates(start_date, end_date) == DateRange(start_date, end_date)

\* line 64: month_day_key in daily_avg.index
InIndex(avg, key) == \E p \in 1..Len(avg) : avg[p].month_day = key

\* line 65: daily_avg.loc[month_day_key]
Loc(avg, key) == avg[CHOOSE p \in 1..Len(avg) : avg[p].month_day = key]

\* max(0, x)
NoClamp(x) == x
Max0(x) == IF x.n < 0 THEN Rat(0, 1) ELSE x

\* np.random.uniform(low, high) draws from [low, high): the least value and
\* one further value of each interval
Draws ==
    [temp_max : {Rat(-2, 1), Rat(3, 2)},
     temp_min : {Rat(-3, 2), Rat(1, 1)},
     precip   : {Rat(-1, 1), Rat(9, 2)},
     wind     : {Rat(-3, 1), Rat(5, 2)}]

\* lines 66-70: the row of one simulated day
ForecastRow(dt, avg_stats, draw) ==
    [Date |-> dt,
     MaxTemp  |-> RatAdd(avg_stats.temperature_2m_max, draw.temp_max),
     MinTemp  |-> RatAdd(avg_stats.temperature_2m_min, draw.temp_min),
     Rainfall |-> Max0(RatAdd(avg_stats.precipitation_sum, draw.precip)),
     Wind     |-> Max0(RatAdd(avg_stats.windspeed_10m_max, draw.wind))]

\* lines 63-70: one pass of the loop body
SimulateDay(list, avg, dt, draw) ==
    IF InIndex(avg, MonthDay(dt))
    THEN Append(list, ForecastRow(dt, Loc(avg, MonthDay(dt)), draw))
    ELSE list

SimStarts == { <<2027, 7, 10>>, <<2028, 2, 28>>, <<2028, 2, 29>> }

SimWx ==
    { [goodFrom |-> 0, goodLen |-> 1, mixed |-> FALSE, missing |-> {}],
      [goodFrom |-> 0, goodLen |-> 1, mixed |-> TRUE, missing |-> {}],
      [goodFrom |-> 1, goodLen |-> 1, mixed |-> FALSE, missing |-> {0}] }

\* the arguments run_analysis passes: the history of the event's window
InitSimArgs ==
    /\ s_pc = "start"
    /\ s_start \in SimStarts
    /\ \E dur \in 1..MaxSimDays : s_end = AddDays(s_start, dur - 1)
    /\ \E ok \in OkYearSets, wx \in SimWx :
         historical_df = GetHistoricalData(Provider(ok, wx, s_start, s_end))
    /\ daily_avg = <<>>
    /\ s_k = 0
    /\ forecast_list = <<>>
    /\ s_result = <<>>

InitSim == IdleFetch /\ IdleBest /\ IdleDash /\ IdleCore /\ InitSimArgs

\* lines 52-61: nothing to simulate from an empty history; else the
\* climatology is built
SimEnter ==
    /\ s_pc = "start"
    /\ IF historical_df = <<>>
       THEN s_pc' = "done" /\ daily_avg' = daily_avg
       ELSE s_pc' = "loop" /\ daily_avg' = Climatology(historical_df)
    /\ UNCHANGED <<historical_df, s_start, s_end, s_k, forecast_list, s_result>>
    /\ UNCHANGED <<fetchVars, bestVars, dashVars, coreVars>>

\* lines 62-70: the next day of the range
SimDay ==
    /\ s_pc = "loop"
    /\ s_k < Len(SimulatedDates(s_start, s_end))
    /\ \E draw \in Draws :
         forecast_list' = SimulateDay(forecast_list, daily_avg,
                                      SimulatedDates(s_start, s_end)[s_k + 1], draw)
    /\ s_k' = s_k + 1
    /\ UNCHANGED <<s_pc, historical_df, s_start, s_end, daily_avg, s_result>>
    /\ UNCHANGED <<fetchVars, bestVars, dashVars, coreVars>>

\* lines 71-72: the rows, or the empty frame when there are none
SimReturn ==
    /\ s_pc = "loop"
    /\ s_k = Len(SimulatedDates(s_start, s_end))
    /\ s_result' = forecast_list
    /\ s_pc' = "done"
    /\ UNCHANGED <<historical_df, s_start, s_end, daily_avg, s_k, forecast_list>>
    /\ UNCHANGED <<fetchVars, bestVars, dashVars, coreVars>>

NextSim == SimEnter \/ SimDay \/ SimReturn

SpecSim == InitSim /\ [][NextSim]_vars

-----------------------------------------------------------------------------
(* simulate_future_forecast as one call, for its callers; draws[k] is the   *)
(* draw of the k-th day                                                     *)

RECURSIVE SimLoop(_, _, _, _, _)
SimLoop(list, avg, dates, k, draws) ==
    IF k > Len(dates) THEN list
    ELSE SimLoop(SimulateDay(list, avg, dates[k], draws[k]), avg, dates, k + 1, draws)

SimulateFutureForecast(df, start_date, end_date, draws) ==
    IF df = <<>> THEN <<>>
    ELSE SimLoop(<<>>, Climatology(df), SimulatedDates(start_date, end_date), 1, draws)

-----------------------------------------------------------------------------
(* app.py: run_analysis *)

\* lines 35-41: the risk probabilities.  error names the exception the
\* computation ends with, "none" when it returns.
RiskProfileUnguarded(hist_df, hot_thresh, rain_thresh) ==
    IF Len(hist_df) = 0
    THEN [hot_prob |-> Rat(0, 1), rain_prob |-> Rat(0, 1), total_days |-> 0,
          error |-> "ZeroDivisionError"]
    ELSE [hot_prob |-> Rat(100 * Cardinality({k \in 1..Len(hist_df) :
                            Val(hist_df[k].temperature_2m_max) > hot_thresh}),
                           Len(hist_df)),
          rain_prob |-> Rat(100 * Cardinality({k \in 1..Len(hist_df) :
                            Val(hist_df[k].precipitation_sum) > rain_thresh}),
                            Len(hist_df)),
          total_days |-> Len(hist_df), error |-> "none"]
RiskProfileInclusive(hist_df, hot_thresh, rain_thresh) ==
    IF hist_df = <<>>
    THEN [hot_prob |-> Rat(0, 1), rain_prob |-> Rat(0, 1), total_days |-> 0,
          error |-> "none"]
    ELSE [hot_prob |-> Rat(100 * Cardinality({k \in 1..Len(hist_df) :
                            Val(hist_df[k].temperature_2m_max) >= hot_thresh}),
                           Len(hist_df)),
          rain_prob |-> Rat(100 * Cardinality({k \in 1..Len(hist_df) :
                            Val(hist_df[k].precipitation_sum) >= rain_thresh}),
                            Len(hist_df)),
          total_days |-> Len(hist_df), error |-> "none"]
RiskProfile(hist_df, hot_thresh, rain_thresh) ==
    IF hist_df = <<>>
    THEN [hot_prob |-> Rat(0, 1), rain_prob |-> Rat(0, 1), total_days |-> 0,
          error |-> "none"]
    ELSE LET total_days == Len(hist_df)
             hot_days == Cardinality({k \in 1..Len(hist_df) :
                            Val(hist_df[k].temperature_2m_max) > hot_thresh})
             rainy_days == Cardinality({k \in 1..Len(hist_df) :
                            Val(hist_df[k].precipitation_sum) > rain_thresh})
         IN  [hot_prob  |-> IF total_days > 0 THEN Rat(100 * hot_days, total_days)
                            ELSE Rat(0, 1),
              rain_prob |-> IF total_days > 0 THEN Rat(100 * rainy_days, total_days)
                            ELSE Rat(0, 1),
              total_days |-> total_days, error |-> "none"]

\* the geocoder (environment): the places it knows, each with its address
Places ==
    [name \in {"Paris", "Pune", "Dubai, UAE"} |->
        IF name = "Paris"
        THEN [address |-> <<"Paris", "Ile-de-France", "France">>,
              latitude |-> 48, longitude |-> 2]
        ELSE IF name = "Dubai, UAE"
        THEN [address |-> <<"Dubai", "United Arab Emirates">>,
              latitude |-> 25, longitude |-> 55]
        ELSE [address |-> <<"Pune", "Maharashtra", "India">>,
              latitude |-> 18, longitude |-> 73]]

\* lines 43-52: the results dictionary
Results(location_name, location, hist_df, sim_df, imm_df, risk, hot_thresh, rain_thresh) ==
    [kind |-> "results", location_input |-> location_name, location |-> location,
     hist_df |-> hist_df, sim_df |-> sim_df, imm_df |-> imm_df,
     hot_prob |-> risk.hot_prob, rain_prob |-> risk.rain_prob,
     total_days |-> risk.total_days,
     hot_thresh |-> hot_thresh, rain_thresh |-> rain_thresh,
     advice_points |-> <<>>]

\* lines 12-52: run_analysis.  geocoder_fails: geocode raised; hist_df,
\* sim_df, imm_df: what the three data calls returned.  Returns the results
\* (None after a geocoding failure, which also clears analysis_done).
RunAnalysis(location_name, geocoder_fails, hist_df, sim_df, imm_df, hot_thresh, rain_thresh) ==
    IF geocoder_fails \/ location_name \notin DOMAIN Places
    THEN [results |-> None, clears_done |-> TRUE]
    ELSE [results |-> Results(location_name, Places[location_name], hist_df,
                              sim_df, imm_df,
                              RiskProfile(hist_df, hot_thresh, rain_thresh),
                              hot_thresh, rain_thresh),
          clears_done |-> FALSE]

-----------------------------------------------------------------------------
(* app.py: the script.  Every interaction reruns it: the pressed button's   *)
(* handler or callback first, then the results dashboard.                   *)

Names == {"", "Atlantis", "Paris", "Pune"}

\* the date inputs: the start, and an end before, at or after it
DashEventStart == <<2027, 7, 10>>
DashEventEnds == { <<2027, 7, 9>>, <<2027, 7, 10>>, <<2027, 7, 12>> }

\* the weather of the event's window: calm, rainy, calm but for a hot
\* first day in the previous year
DashWx ==
    { [goodFrom |-> 0, goodLen |-> 3, mixed |-> FALSE, missing |-> {}],
      [goodFrom |-> 3, goodLen |-> 0, mixed |-> FALSE, missing |-> {}],
      [goodFrom |-> 0, goodLen |-> 3, mixed |-> TRUE, missing |-> {}] }

LowDraw == [temp_max |-> Rat(-2, 1), temp_min |-> Rat(-3, 2),
            precip |-> Rat(-1, 1), wind |-> Rat(-3, 1)]
HighDraw == [temp_max |-> Rat(3, 2), temp_min |-> Rat(1, 1),
             precip |-> Rat(9, 2), wind |-> Rat(5, 2)]

\* get_immediate_forecast: the frame of the response, empty on any failure
ImmediateForecasts ==
    { <<>>, <<ServerRow(<<2026, 11, 5>>, "good")>> }

InitDash ==
    /\ IdleFetch /\ IdleBest /\ IdleSim /\ IdleCore
    /\ d_pc = "idle"
    /\ analysis_done = FALSE
    /\ location_input = ""
    /\ original_results = None
    /\ comparison_results = None
    /\ current_results = "None"
    /\ event_start = <<>>
    /\ event_end = <<>>
    /\ d_view = "none"
    /\ d_error = "none"
    /\ suggestion_buttons = <<>>
    /\ report = None

\* what run_analysis returns for this name under this provider and draws
Analysed(name, start, end, geocoder_fails, ok, wx, draw, imm) ==
    RunAnalysis(name, geocoder_fails,
                GetHistoricalData(Provider(ok, wx, start, end)),
                SimulateFutureForecast(
                    GetHistoricalData(Provider(ok, wx, start, end)), start, end,
                    [k \in 1..(DaysBetween(start, end) + 1) |-> draw]),
                imm, HotThresh, RainThresh)

\* every analysis of a known place that the form's dates, the provider and
\* the draws allow
FirstAnalyses ==
    { [name |-> name, end |-> end,
       results |-> Analysed(name, DashEventStart, end, FALSE, ok, wx, draw,
                            imm).results] :
        name \in Names \cap DOMAIN Places,
        end \in {e \in DashEventEnds : ToOrdinal(DashEventStart) <= ToOrdinal(e)},
        ok \in OkYearSets, wx \in DashWx, draw \in {LowDraw, HighDraw},
        imm \in ImmediateForecasts }

\* lines 88-104: "Analyze Event Weather" is pressed with this text in the
\* location box and this end date
PressAnalyze ==
    /\ d_pc = "idle"
    /\ \/ \* lines 89-92: no location, or the dates are in the wrong order
          /\ \E name \in Names, end \in DashEventEnds :
               /\ name = "" \/ ToOrdinal(DashEventStart) > ToOrdinal(end)
               /\ location_input' = name
          /\ UNCHANGED <<event_start, event_end, analysis_done, original_results,
                         comparison_results, current_results>>
       \/ \* lines 94-98: run_analysis fails at geocoding
          /\ \E name \in Names \ {""}, end \in DashEventEnds,
                geocoder_fails \in BOOLEAN :
               /\ ToOrdinal(DashEventStart) <= ToOrdinal(end)
               /\ RunAnalysis(name, geocoder_fails, <<>>, <<>>, <<>>,
                              HotThresh, RainThresh).results = None
               /\ location_input' = name
               /\ event_start' = DashEventStart
               /\ event_end' = end
          /\ analysis_done' = FALSE
          /\ UNCHANGED <<original_results, comparison_results, current_results>>
       \/ \* lines 94-104: run_analysis returns results
          \E run \in FirstAnalyses :
               /\ location_input' = run.name
               /\ event_start' = DashEventStart
               /\ event_end' = run.end
               /\ original_results' = run.results
               /\ current_results' = "original_results"
               /\ comparison_results' = None
               /\ analysis_done' = TRUE
    /\ d_pc' = "render"
    /\ UNCHANGED <<d_view, d_error, suggestion_buttons, report>>
    /\ UNCHANGED <<fetchVars, bestVars, simVars, coreVars>>

\* every analysis of a suggested place the geocoder knows, for the event's
\* dates
ComparisonAnalyses ==
    { [name |-> name, end |-> end,
       results |-> Analysed(name, DashEventStart, end, FALSE, ok, wx, draw,
                            imm).results] :
        name \in DOMAIN Places \ Names,
        end \in {e \in DashEventEnds : ToOrdinal(DashEventStart) <= ToOrdinal(e)},
        ok \in OkYearSets, wx \in DashWx, draw \in {LowDraw, HighDraw},
        imm \in ImmediateForecasts }

\* lines 54-60: the callback stores whatever run_analysis returned as the
\* comparison and displays it, and a failed geocoding leaves analysis_done
AnalyzeNewLocationCallbackUnchecked ==
    /\ d_pc = "idle"
    /\ \E k \in 1..Len(suggestion_buttons) :
         \/ /\ \E geocoder_fails \in BOOLEAN :
                 RunAnalysis(suggestion_buttons[k], geocoder_fails, <<>>, <<>>,
                             <<>>, HotThresh, RainThresh).results = None
            /\ comparison_results' = None
            /\ current_results' = "comparison_results"
            /\ location_input' = suggestion_buttons[k]
            /\ UNCHANGED analysis_done
         \/ \E run \in ComparisonAnalyses :
              /\ run.name = suggestion_buttons[k]
              /\ run.end = event_end
              /\ comparison_results' = run.results
              /\ current_results' = "comparison_results"
              /\ location_input' = suggestion_buttons[k]
              /\ UNCHANGED analysis_done
    /\ d_pc' = "render"
    /\ UNCHANGED <<original_results, event_start, event_end, d_view, d_error,
                   suggestion_buttons, report>>
    /\ UNCHANGED <<fetchVars, bestVars, simVars, coreVars>>

\* lines 54-60: analyze_new_location_callback, the on_click of the k-th
\* suggestion button on screen
AnalyzeNewLocationCallback ==
    /\ d_pc = "idle"
    /\ \E k \in 1..Len(suggestion_buttons) :
         \/ \* run_analysis fails at geocoding: nothing is stored
            /\ \E geocoder_fails \in BOOLEAN :
                 RunAnalysis(suggestion_buttons[k], geocoder_fails, <<>>, <<>>,
                             <<>>, HotThresh, RainThresh).results = None
            /\ analysis_done' = FALSE
            /\ UNCHANGED <<comparison_results, current_results, location_input>>
         \/ \* lines 57-60: the results become the comparison and are displayed
            \E run \in ComparisonAnalyses :
              /\ run.name = suggestion_buttons[k]
              /\ run.end = event_end
              /\ comparison_results' = run.results
              /\ current_results' = "comparison_results"
              /\ location_input' = suggestion_buttons[k]
              /\ UNCHANGED analysis_done
    /\ d_pc' = "render"
    /\ UNCHANGED <<original_results, event_start, event_end, d_view, d_error,
                   suggestion_buttons, report>>
    /\ UNCHANGED <<fetchVars, bestVars, simVars, coreVars>>

\* current_results is one of the two stored dictionaries, not a copy
Deref(ref) ==
    IF ref = "original_results" THEN original_results
    ELSE IF ref = "comparison_results" THEN comparison_results
    ELSE None

Over(prob, percent) == RatLess(Rat(percent, 1), prob)

\* line 162
IsHighRisk(res) == Over(res.rain_prob, 50) \/ Over(res.hot_prob, 50)

\* lines 164-171: the advice of a location that is not high-risk
CalmAdvice(res) ==
    IF ~IsHighRisk(res) /\ (Over(res.rain_prob, 20) \/ Over(res.hot_prob, 20))
    THEN <<"Moderate Risk">>
    ELSE IF ~IsHighRisk(res) THEN <<"Good Conditions Expected">>
    ELSE <<>>

\* a call whose positional arguments outnumber the parameters raises TypeError
CallRaisesTypeError(args, params) == args # params

\* lines 179-182: the date suggestion, when find_best_dates returned dates
\* that do not start on the event's first day
DateAdvice(best, start) ==
    IF best.kind = "dates" /\ best.best_start_date # start
    THEN <<"Date Suggestion">>
    ELSE <<>>

cooler_south_india == <<"Munnar, Kerala", "Ooty, Tamil Nadu", "Kodaikanal, Tamil Nadu">>
cooler_north_india == <<"Shimla, Himachal Pradesh", "Manali, Himachal Pradesh", "Nainital, Uttarakhand">>
drier_india == <<"Jaisalmer, Rajasthan", "Leh, Ladakh", "Pune, Maharashtra">>
cooler_international == <<"Zurich, Switzerland", "Vancouver, Canada", "Oslo, Norway">>
drier_international == <<"Dubai, UAE", "Cairo, Egypt", "Lima, Peru">>

SouthStates == {"Kerala", "Tamil Nadu", "Karnataka", "Andhra Pradesh", "Telangana"}

\* address.split(',')[-1].strip()
Country(address) == address[Len(address)]

\* lines 193-207: the list the suggestions are sampled from
SourceList(res) ==
    IF Over(res.rain_prob, 50)
    THEN (IF Country(res.location.address) = "India" THEN drier_india
          ELSE drier_international)
    ELSE IF Over(res.hot_prob, 50)
    THEN (IF Country(res.location.address) = "India"
          THEN (IF \E j \in 1..Len(res.location.address) :
                      res.location.address[j] \in SouthStates
                THEN cooler_south_india ELSE cooler_north_india)
          ELSE cooler_international)
    ELSE <<>>

\* random.sample(source_list, n): n distinct entries in any order
Samples(source_list, n) ==
    {pick \in [1..n -> 1..Len(source_list)] :
        \A a, b \in 1..n : a # b => pick[a] # pick[b]}

Sampled(source_list, pick) == [k \in 1..Len(pick) |-> source_list[pick[k]]]

Min(a, b) == IF a < b THEN a ELSE b

\* add_section_to_pdf: what the report prints of one location
Section(results) ==
    [location_input |-> results.location_input,
     hot_prob |-> results.hot_prob, rain_prob |-> results.rain_prob,
     total_days |-> results.total_days,
     advice_points |-> results.advice_points]

\* lines 215-226: the advice is stored on the displayed results, then on
\* original_results, the comparison's is emptied, and the report is built
StoreAdviceAndReport(advice_points) ==
    LET shown_original ==
            IF current_results = "original_results"
            THEN [original_results EXCEPT !.advice_points = advice_points]
            ELSE original_results
        shown_comparison ==
            IF current_results = "comparison_results"
            THEN [comparison_results EXCEPT !.advice_points = advice_points]
            ELSE comparison_results
    IN  IF shown_original = None
        THEN /\ d_error' = "TypeError"
             /\ d_view' = "crashed"
             /\ original_results' = shown_original
             /\ comparison_results' = shown_comparison
             /\ report' = None
        ELSE /\ d_error' = "none"
             /\ d_view' = "dashboard"
             /\ original_results' =
                  [shown_original EXCEPT !.advice_points = advice_points]
             /\ comparison_results' =
                  IF shown_comparison # None
                  THEN [shown_comparison EXCEPT !.advice_points = <<>>]
                  ELSE None
             /\ report' =
                  [kind |-> "report",
                   original |-> Section([shown_original EXCEPT
                                            !.advice_points = advice_points]),
                   comparison |->
                      IF shown_comparison # None
                      THEN Section([shown_comparison EXCEPT !.advice_points = <<>>])
                      ELSE None]

\* lines 178-226 of a high-risk location once find_best_dates has returned
\* (no dates, the event's own dates, or other dates): the date advice, the
\* sampled suggestion buttons, the stored advice and the report
SuggestAndStore ==
    \E best \in {NoDates,
                 [kind |-> "dates", best_start_date |-> event_start,
                  best_end_date |-> event_end],
                 [kind |-> "dates",
                  best_start_date |-> AddDays(event_start, 1),
                  best_end_date |-> AddDays(event_end, 1)]},
       pick \in Samples(SourceList(Deref(current_results)),
                        Min(MaxSuggestions,
                            Len(SourceList(Deref(current_results))))) :
      /\ suggestion_buttons' =
           Sampled(SourceList(Deref(current_results)), pick)
      /\ StoreAdviceAndReport(DateAdvice(best, event_start))

\* lines 107-251: the results dashboard of this script run
RenderDashboard ==
    /\ d_pc = "render"
    /\ d_pc' = "idle"
    /\ IF ~(analysis_done /\ current_results # "None")
       THEN /\ d_view' = "form"
            /\ d_error' = "none"
            /\ suggestion_buttons' = <<>>
            /\ report' = None
            /\ UNCHANGED <<original_results, comparison_results>>
       ELSE IF Deref(current_results).hist_df = <<>>
       THEN /\ d_view' = "no data"
            /\ d_error' = "none"
            /\ suggestion_buttons' = <<>>
            /\ report' = None
            /\ UNCHANGED <<original_results, comparison_results>>
       ELSE IF ~IsHighRisk(Deref(current_results))
       THEN /\ suggestion_buttons' = <<>>
            /\ StoreAdviceAndReport(CalmAdvice(Deref(current_results)))
       ELSE IF CallRaisesTypeError(FindBestDatesArgs, FindBestDatesParams)
       THEN \* line 178 raises: the script run ends there
            /\ d_view' = "crashed"
            /\ d_error' = "TypeError"
            /\ suggestion_buttons' = <<>>
            /\ report' = None
            /\ UNCHANGED <<original_results, comparison_results>>
       ELSE SuggestAndStore
    /\ UNCHANGED <<analysis_done, location_input, current_results, event_start,
                   event_end>>
    /\ UNCHANGED <<fetchVars, bestVars, simVars, coreVars>>

\* The suggestion buttons are drawn after the call of line 178 only, so
\* AnalyzeNewLocationCallback is never enabled.
NextDash == PressAnalyze \/ RenderDashboard

SpecDash == InitDash /\ [][NextDash]_vars

\* The results dashboard of a high-risk location when the call of line 178
\* returns, as it does once its arguments are the six find_best_dates takes:
\* the suggestion buttons are drawn and the advice and report are stored.
RenderDashboardCallReturns ==
    /\ d_pc = "render"
    /\ d_pc' = "idle"
    /\ analysis_done
    /\ current_results # "None"
    /\ Deref(current_results).hist_df # <<>>
    /\ IsHighRisk(Deref(current_results))
    /\ SuggestAndStore
    /\ UNCHANGED <<analysis_done, location_input, current_results, event_start,
                   event_end>>
    /\ UNCHANGED <<fetchVars, bestVars, simVars, coreVars>>

\* The session with the suggestion buttons in play: every behaviour of
\* SpecDash, and those in which the call of line 178 returns and a drawn
\* button is clicked.
NextSession ==
    \/ PressAnalyze
    \/ RenderDashboard
    \/ RenderDashboardCallReturns
    \/ AnalyzeNewLocationCallback

SpecSession == InitDash /\ [][NextSession]_vars

-----------------------------------------------------------------------------
(* The core on an unavailable or patchy provider: the history of the       *)
(* event's window is fetched and scored as run_analysis does, the better   *)
(* dates are searched and the forecast is simulated, each by the steps     *)
(* above.                                                                   *)

CoreStart == <<2027, 7, 10>>

\* calm weather; the event's first day without a precipitation value; rain
CoreWx ==
    { [goodFrom |-> 0, goodLen |-> 3, mixed |-> FALSE, missing |-> {}],
      [goodFrom |-> 0, goodLen |-> 3, mixed |-> FALSE, missing |-> {0}],
      [goodFrom |-> 0, goodLen |-> 0, mixed |-> FALSE, missing |-> {}] }

InitCore ==
    /\ IdleFetch /\ IdleBest /\ IdleSim /\ IdleDash
    /\ r_pc = "start"
    /\ r_start = CoreStart
    /\ \E dur \in 1..MaxSimDays : r_end = AddDays(r_start, dur - 1)
    /\ r_ok \in OkYearSets
    /\ r_wx \in CoreWx
    /\ r_hist_df = <<>>
    /\ r_risk = <<>>
    /\ r_hot_thresh = HotThresh
    /\ r_rain_thresh = RainThresh

\* app.py line 30: hist_df
CoreFetch ==
    /\ r_pc = "start"
    /\ r_hist_df' = GetHistoricalData(Provider(r_ok, r_wx, r_start, r_end))
    /\ r_pc' = "fetched"
    /\ UNCHANGED <<r_start, r_end, r_ok, r_wx, r_risk, r_hot_thresh,
                   r_rain_thresh>>
    /\ UNCHANGED <<fetchVars, bestVars, simVars, dashVars>>

\* app.py lines 35-41: the risk figures; an exception ends the run
CoreRisk ==
    /\ r_pc = "fetched"
    /\ r_risk' = RiskProfile(r_hist_df, r_hot_thresh, r_rain_thresh)
    /\ r_pc' = IF RiskProfile(r_hist_df, r_hot_thresh, r_rain_thresh).error = "none"
               THEN "scored" ELSE "raised"
    /\ UNCHANGED <<r_start, r_end, r_ok, r_wx, r_hist_df, r_hot_thresh,
                   r_rain_thresh>>
    /\ UNCHANGED <<fetchVars, bestVars, simVars, dashVars>>

\* get_data.py line 93: find_best_dates is entered with the event's dates
CoreFindBestDates ==
    /\ r_pc = "scored"
    /\ r_pc' = "searching"
    /\ b_pc' = "start"
    /\ original_start' = r_start
    /\ original_end' = r_end
    /\ b_ok' = r_ok
    /\ b_wx' = r_wx
    /\ UNCHANGED <<wide_range_df, daily_risks, rolling_avg_risk, b_result>>
    /\ UNCHANGED <<fetchVars, simVars, dashVars>>
    /\ UNCHANGED <<r_start, r_end, r_ok, r_wx, r_hist_df, r_risk, r_hot_thresh,
                   r_rain_thresh>>

\* get_data.py line 51: once the search has returned,
\* simulate_future_forecast is entered with hist_df and the event's dates
CoreSimulate ==
    /\ r_pc = "searching"
    /\ b_pc = "done"
    /\ r_pc' = "simulating"
    /\ s_pc' = "start"
    /\ historical_df' = r_hist_df
    /\ s_start' = r_start
    /\ s_end' = r_end
    /\ UNCHANGED <<daily_avg, s_k, forecast_list, s_result>>
    /\ UNCHANGED <<fetchVars, bestVars, dashVars>>
    /\ UNCHANGED <<r_start, r_end, r_ok, r_wx, r_hist_df, r_risk, r_hot_thresh,
                   r_rain_thresh>>

NextCore ==
    \/ CoreFetch \/ CoreRisk
    \/ CoreFindBestDates \/ BestFetch \/ BestRisks \/ BestRolling \/ BestPick
    \/ CoreSimulate \/ SimEnter \/ SimDay \/ SimReturn

SpecCore == InitCore /\ [][NextCore]_vars

-----------------------------------------------------------------------------
(* The risk computation of run_analysis over histories and thresholds      *)

\* thresholds below, between and at the temperatures and rainfalls served
HotThreshes == {25, HotThresh, 35}
RainThreshes == {0, RainThresh, 20}

\* calm, rain and rows without a value as above; a calm first day, hot in
\* the previous year, before rain
RiskWx ==
    CoreWx \cup { [goodFrom |-> 0, goodLen |-> 1, mixed |-> TRUE, missing |-> {}] }

InitRisk ==
    /\ IdleFetch /\ IdleBest /\ IdleSim /\ IdleDash
    /\ r_pc = "start"
    /\ r_start = CoreStart
    /\ \E dur \in 1..MaxSimDays : r_end = AddDays(r_start, dur - 1)
    /\ r_ok \in OkYearSets
    /\ r_wx \in RiskWx
    /\ r_hist_df = <<>>
    /\ r_risk = <<>>
    /\ r_hot_thresh \in HotThreshes
    /\ r_rain_thresh \in RainThreshes

NextRisk == CoreFetch \/ CoreRisk

SpecRisk == InitRisk /\ [][NextRisk]_vars

-----------------------------------------------------------------------------
(* Claims about get_historical_data_for_event *)

Range(seq) == {seq[k] : k \in 1..Len(seq)}

\* the rows the provider sent in the years that answered with data
ServedRows == UNION {Range(served[j].frame) : j \in 1..Len(served)}

\* the served frame a row came from
ServedIndex(row) == CHOOSE j \in 1..Len(served) : row \in Range(served[j].frame)

\* C1: whatever each year's request does (200 with 'daily', 200 without,
\* non-200, exception), the aggregator issues exactly 20 requests, for
\* i = 1..20 in that order, never raises, and returns exactly the rows of
\* the years that answered with data, in the order of the years, without
\* any row that has a missing field; with no such year it returns the
\* empty dataset.
C1_Aggregator ==
    /\ f_raised = FALSE
    /\ f_pc # "raised"
    /\ Len(requests) = f_i
    /\ \A i \in 1..Len(requests) :
          /\ requests[i].start_date = SubYears(f_start, i)
          /\ requests[i].end_date = SubYears(f_end, i)
    /\ f_pc = "done" =>
          /\ Len(requests) = NumYears
          /\ \A k \in 1..Len(f_result) :
                \A fld \in Fields : f_result[k][fld] # Null
          /\ Range(f_result) = {row \in ServedRows : RowComplete(row)}
          /\ Len(f_result) = Cardinality(Range(f_result))
          /\ \A a, b \in 1..Len(f_result) :
                a < b => ServedIndex(f_result[a]) <= ServedIndex(f_result[b])
          /\ \A j, k \in 1..Len(served) : j < k => served[j].year < served[k].year
          /\ served = <<>> => f_result = <<>>

\* a finished aggregation in which two years answered with data, one of
\* them with an incomplete row, and the other eighteen contributed nothing
C1_Witness ==
    /\ f_pc = "done"
    /\ Len(served) = 2
    /\ f_i = NumYears
    /\ \E row \in ServedRows : ~RowComplete(row)
    /\ f_result # <<>>

-----------------------------------------------------------------------------
(* Claims about find_best_dates *)

Returned == b_pc = "done" /\ b_result.kind = "dates"

\* the total risk of the window of event_duration groups ending at position p
WindowTotal(p) == SumRisk(daily_risks, p - EventDuration + 1, p)

CompleteWindows == EventDuration..Len(daily_risks)

\* the window ending at position p is the one the returned dates name
Chosen(p) ==
    /\ MonthDay(b_result.best_start_date)
         = daily_risks[p - EventDuration + 1].month_day
    /\ MonthDay(b_result.best_end_date) = daily_risks[p].month_day

\* C2: when dates are returned, the window chosen ends at the smallest
\* position, in month-day order, whose moving average of total_risk over
\* event_duration consecutive groups is least among all complete windows;
\* when every group has the same total_risk it is the first event_duration
\* groups.
C2_FirstLeastWindow ==
    Returned =>
      /\ \E p \in CompleteWindows :
            /\ Chosen(p)
            /\ \A q \in CompleteWindows :
                  /\ ~RatLess(WindowTotal(q), WindowTotal(p))
                  /\ q < p => RatLess(WindowTotal(p), WindowTotal(q))
      /\ (\A p, q \in 1..Len(daily_risks) :
             RatEq(daily_risks[p].total_risk, daily_risks[q].total_risk))
         => /\ MonthDay(b_result.best_start_date) = daily_risks[1].month_day
            /\ MonthDay(b_result.best_end_date)
                 = daily_risks[EventDuration].month_day

\* dates were returned where two different windows share the least average
\* although the groups' risks differ
C2_Witness ==
    /\ Returned
    /\ EventDuration > 1
    /\ \E p \in CompleteWindows :
          /\ Chosen(p)
          /\ \E q \in CompleteWindows :
                q > p /\ RatEq(WindowTotal(q), WindowTotal(p))
    /\ \E p, q \in 1..Len(daily_risks) :
          ~RatEq(daily_risks[p].total_risk, daily_risks[q].total_risk)

Finished == b_pc \in {"done", "raised"}

\* the total risk of the event_duration calendar days from search_start + k
\* (Null when one of them has no group)
HasGroup(day) == \E p \in 1..Len(daily_risks) : daily_risks[p].month_day = MonthDay(day)
RiskOfDay(day) ==
    daily_risks[CHOOSE p \in 1..Len(daily_risks) :
                    daily_risks[p].month_day = MonthDay(day)].total_risk

RECURSIVE CalendarTotal(_, _)
CalendarTotal(first_day, days) ==
    IF days = 0 THEN Rat(0, 1)
    ELSE RatAdd(RiskOfDay(first_day), CalendarTotal(AddDays(first_day, 1), days - 1))

CalendarWindows ==
    {k \in 0..(2 * SearchRadius - EventDuration + 1) :
        \A j \in 0..(EventDuration - 1) : HasGroup(AddDays(SearchStart, k + j))}

\* the period of event_duration days starting k days into the search range
\* has strictly the least risk of all such periods
LowestRiskPeriod(k) ==
    /\ k \in CalendarWindows
    /\ \A other \in CalendarWindows \ {k} :
          RatLess(CalendarTotal(AddDays(SearchStart, k), EventDuration),
                  CalendarTotal(AddDays(SearchStart, other), EventDuration))

\* C3: when the search range straddles January 1 and the lowest-risk period
\* of the event's duration runs from December into January, best_start_date
\* is in December and best_end_date in January of the following year.
C3_DecemberIntoJanuary ==
    (/\ Finished
     /\ daily_risks # <<>>
     /\ SearchStart[1] < SearchEnd[1]
     /\ \E k \in 0..(2 * SearchRadius - EventDuration + 1) :
           /\ AddDays(SearchStart, k)[2] = 12
           /\ AddDays(SearchStart, k + EventDuration - 1)[2] = 1
           /\ LowestRiskPeriod(k))
    => /\ b_result.kind = "dates"
       /\ b_result.best_start_date[2] = 12
       /\ b_result.best_end_date[2] = 1
       /\ b_result.best_end_date[1] = b_result.best_start_date[1] + 1

\* C4: the dates returned delimit exactly event_duration calendar days.
C4_SpanIsDuration ==
    Returned =>
      DaysBetween(b_result.best_start_date, b_result.best_end_date) + 1
        = EventDuration

\* C5: the dates returned lie inside the search range.
C5_InsideSearchRange ==
    Returned =>
      /\ ToOrdinal(SearchStart) <= ToOrdinal(b_result.best_start_date)
      /\ ToOrdinal(b_result.best_end_date) <= ToOrdinal(SearchEnd)

\* C6: find_best_dates never raises; it returns dates or (None, None).
C6_NeverRaises ==
    /\ b_pc # "raised"
    /\ b_pc = "done" => b_result.kind \in {"dates", "none"}

-----------------------------------------------------------------------------
(* Claims about simulate_future_forecast *)

\* the month-day of this day has rows in the history
InHistory(day) ==
    \E k \in 1..Len(historical_df) : MonthDay(historical_df[k].time) = MonthDay(day)

RequestedDays == ToOrdinal(s_start)..ToOrdinal(s_end)

\* C9: the simulator emits exactly one row for each day of
\* [start_date, end_date] whose month-day is in the climatology, no other
\* row, in ascending date order; so there are at most as many rows as days,
\* and as many when every month-day of the range is present.
C9_OneRowPerKnownDay ==
    s_pc = "done" =>
      /\ \A o \in RequestedDays :
            InHistory(FromOrdinal(o)) =>
               Cardinality({k \in 1..Len(s_result) :
                               s_result[k].Date = FromOrdinal(o)}) = 1
      /\ \A k \in 1..Len(s_result) :
            /\ ToOrdinal(s_result[k].Date) \in RequestedDays
            /\ InHistory(s_result[k].Date)
      /\ \A a, b \in 1..Len(s_result) :
            a < b => ToOrdinal(s_result[a].Date) < ToOrdinal(s_result[b].Date)
      /\ Len(s_result) <= Cardinality(RequestedDays)
      /\ (\A o \in RequestedDays : InHistory(FromOrdinal(o)))
            => Len(s_result) = Cardinality(RequestedDays)

\* a finished simulation of a range with a day the climatology knows and a
\* day it does not
C9_Witness ==
    /\ s_pc = "done"
    /\ s_result # <<>>
    /\ \E o \in RequestedDays : ~InHistory(FromOrdinal(o))
    /\ \E o \in RequestedDays : InHistory(FromOrdinal(o))

\* C10: no row has rainfall or wind below 0, whatever the climatology mean
\* and the draw.
C10_NonNegative ==
    \A k \in 1..Len(forecast_list) :
        /\ forecast_list[k].Rainfall.n >= 0 /\ forecast_list[k].Rainfall.d > 0
        /\ forecast_list[k].Wind.n >= 0 /\ forecast_list[k].Wind.d > 0

\* a row of a day whose mean precipitation and mean wind are 0 and whose
\* draws were negative: both were clamped to 0
C10_Witness ==
    \E k \in 1..Len(forecast_list) :
        /\ Loc(daily_avg, MonthDay(forecast_list[k].Date)).precipitation_sum.n = 0
        /\ Loc(daily_avg, MonthDay(forecast_list[k].Date)).windspeed_10m_max.n = 0
        /\ forecast_list[k].Rainfall.n = 0
        /\ forecast_list[k].Wind.n = 0

-----------------------------------------------------------------------------
(* Claims about the results dashboard *)

\* the script has run to its end, or to its exception, on a completed
\* analysis with rain_prob > 50
RenderedHighRain ==
    /\ d_pc = "idle"
    /\ analysis_done
    /\ current_results # "None"
    /\ Deref(current_results).hist_df # <<>>
    /\ Over(Deref(current_results).rain_prob, 50)

\* C7: whenever a completed analysis has rain_prob > 50, rendering the
\* dashboard classifies it as high-risk, the call of find_best_dates with the
\* event duration as an argument returns normally, and the suggested
\* locations are a non-empty list drawn from drier_international when the
\* address's country is not India, from drier_india otherwise.
C7_HighRainSuggestions ==
    RenderedHighRain =>
        /\ IsHighRisk(Deref(current_results))
        /\ d_error = "none"
        /\ suggestion_buttons # <<>>
        /\ Range(suggestion_buttons) \subseteq
             Range(IF Country(Deref(current_results).location.address) = "India"
                   THEN drier_india ELSE drier_international)

-----------------------------------------------------------------------------
(* Claims about the core on an empty Historical Dataset *)

\* C8: with an empty Historical Dataset nothing in the core raises: the risk
\* computation yields hot_prob = 0, rain_prob = 0 and total_days = 0,
\* simulate_future_forecast returns an empty result, and find_best_dates,
\* whose own fetch is empty, returns (None, None).
C8_EmptyHistoryNeverRaises ==
    /\ (r_hist_df = <<>> /\ r_pc \notin {"idle", "start", "fetched"}) =>
          /\ r_pc # "raised"
          /\ r_risk = [hot_prob |-> Rat(0, 1), rain_prob |-> Rat(0, 1),
                       total_days |-> 0, error |-> "none"]
    /\ (wide_range_df = <<>> /\ r_pc \in {"searching", "simulating"}
          /\ b_pc # "start") =>
          /\ b_pc = "done"
          /\ b_result = NoDates
    /\ (historical_df = <<>> /\ r_pc = "simulating" /\ s_pc # "start") =>
          /\ s_pc = "done"
          /\ s_result = <<>>

\* all 20 yearly fetches failed, and the three computations have returned
C8_Witness ==
    /\ r_ok = {}
    /\ r_pc = "simulating"
    /\ r_hist_df = <<>>
    /\ r_risk.total_days = 0
    /\ b_pc = "done"
    /\ wide_range_df = <<>>
    /\ b_result = NoDates
    /\ s_pc = "done"
    /\ s_result = <<>>

-----------------------------------------------------------------------------
(* Claims about the risk computation *)

HotRows == {k \in 1..Len(r_hist_df) :
               Val(r_hist_df[k].temperature_2m_max) > r_hot_thresh}
RainyRows == {k \in 1..Len(r_hist_df) :
                 Val(r_hist_df[k].precipitation_sum) > r_rain_thresh}

InPercentRange(prob) ==
    /\ ~RatLess(prob, Rat(0, 1))
    /\ ~RatLess(Rat(100, 1), prob)

\* C11: for every non-empty Historical Dataset and every pair of thresholds
\* the risk computation yields total_days = the number of rows,
\* hot_prob = 100 x (rows with max temperature > hot_thresh) / total_days and
\* rain_prob = 100 x (rows with precipitation > rain_thresh) / total_days,
\* both in [0, 100].
C11_RiskProbabilities ==
    (r_pc \in {"scored", "raised"} /\ r_hist_df # <<>>) =>
        /\ r_pc = "scored"
        /\ r_risk.total_days = Len(r_hist_df)
        /\ r_risk.hot_prob.n * r_risk.total_days
             = 100 * Cardinality(HotRows) * r_risk.hot_prob.d
        /\ r_risk.rain_prob.n * r_risk.total_days
             = 100 * Cardinality(RainyRows) * r_risk.rain_prob.d
        /\ InPercentRange(r_risk.hot_prob)
        /\ InPercentRange(r_risk.rain_prob)

\* a scored history with some, not all, rows hot and some, not all, rainy,
\* under thresholds other than the application's
C11_Witness ==
    /\ r_pc = "scored"
    /\ r_hist_df # <<>>
    /\ <<r_hot_thresh, r_rain_thresh>> # <<HotThresh, RainThresh>>
    /\ RatLess(Rat(0, 1), r_risk.hot_prob)
    /\ RatLess(r_risk.hot_prob, Rat(100, 1))
    /\ RatLess(Rat(0, 1), r_risk.rain_prob)
    /\ RatLess(r_risk.rain_prob, Rat(100, 1))

-----------------------------------------------------------------------------
(* Claims about the session state *)

\* C12: after any sequence of Analyze presses and suggestion-button
\* callbacks, each analysis succeeding or failing at geocoding, whenever
\* analysis_done is true both current_results and original_results are
\* non-null.
C12_DoneHasResults ==
    analysis_done =>
        /\ current_results # "None"
        /\ Deref(current_results) # None
        /\ original_results # None

\* a comparison is on display after a clicked suggestion, the original kept
C12_Witness ==
    /\ d_pc = "idle"
    /\ analysis_done
    /\ current_results = "comparison_results"
    /\ comparison_results # None
    /\ original_results # None
    /\ d_view = "dashboard"

\* the advice the dashboard derives from a location's own hot_prob and
\* rain_prob: none yet (line 50), the moderate or good message, or for a
\* high-risk location at most the date suggestion
OwnAdvice(res) ==
    IF IsHighRisk(res) THEN {<<>>, <<"Date Suggestion">>}
    ELSE {<<>>, CalmAdvice(res)}

=============================================================================
